---- MODULE Spec2Model ----
(***************************************************************************)
(* State-machine model of the Space Invaders game kernel of src/main.cpp:  *)
(* the key callback, the main loop (one action per block of the loop body, *)
(* in program order) and the game-over loop.                               *)
(*                                                                         *)
(* size_t values are 64 bits wide in the program.  A size_t is represented *)
(* here by its two's-complement reading: the integer v stands for the      *)
(* value v mod 2^64, so a value that wrapped below zero is a negative      *)
(* integer.  Sums and differences are then exact, and the unsigned         *)
(* comparisons of the program are ULt / UGe below.                         *)
(***************************************************************************)
EXTENDS Integers, Sequences, FiniteSets, TLC

\* ---------------------------------------------------------------- bounds
MaxFrames == 4
MaxEventsPerPoll == 2
MaxOobReads == 2
\* how far from either edge of the buffer a sprite is drawn
MaxDrawMargin == 12

\* ------------------------------------------------------ program constants
GAME_MAX_BULLETS == 128
ALIEN_DEAD == 0
ALIEN_TYPE_A == 1
ALIEN_TYPE_B == 2
ALIEN_TYPE_C == 3
buffer_width == 224
buffer_height == 256
num_aliens == 55
alien_death_sprite_width == 13
alien_sprite_height == 8
player_sprite_width == 11
player_sprite_height == 7
bullet_sprite_width == 1
bullet_sprite_height == 3
frame_duration == 10
num_frames == 2

AlienIdx == 0 .. (num_aliens - 1)

\* width of alien_sprites[2*(type-1)] and alien_sprites[2*(type-1)+1]
alien_sprite_width(type) ==
    CASE type = ALIEN_TYPE_A -> 8
      [] type = ALIEN_TYPE_B -> 11
      [] type = ALIEN_TYPE_C -> 12

\* ------------------------------------------------- unsigned comparisons
\* a < b for two size_t values
ULt(a, b) == IF (a >= 0) = (b >= 0) THEN a < b ELSE a >= 0
\* a >= b for two size_t values
UGe(a, b) == ~ULt(a, b)

Abs(v) == IF v < 0 THEN -v ELSE v

\* ------------------------------------------------------------------ state
VARIABLES
    game_running,        \* global: cleared by Escape and by the player's death
    move_dir,            \* global: changed by the Left / Right key events
    fire_pressed,        \* global: set by a Space RELEASE, cleared each frame
    window_should_close, \* glfwWindowShouldClose(window)
    right_held,          \* keyboard: the Right key is physically down
    left_held,           \* keyboard: the Left key is physically down
    aliens,              \* game.aliens[0 .. 54]: [x, y, type]
    death_counters,      \* death_counters[0 .. 54]
    bullets,             \* game.bullets: the slots written so far, slot i is bullets[i+1]
    num_bullets,         \* game.num_bullets
    player,              \* game.player: [x, y, life]
    score,
    aliensShoot,
    alien_move_dir,
    alien_animation,     \* alien_animation[0 .. 2].time
    pc,                  \* position in main()
    bi,                  \* bullet index of the "Simulate Bullets" loop
    ai,                  \* alien index of its inner loop
    frame,               \* iterations of the main loop started so far
    events,              \* key events delivered by the glfwPollEvents in progress
    oob_reads,           \* reads of game.bullets outside the slots written so far
    draw                 \* the last call of buffer_draw_sprite: its arguments, the cells
                         \* of buffer->data it wrote

vars == <<game_running, move_dir, fire_pressed, window_should_close, right_held,
          left_held, aliens, death_counters, bullets, num_bullets, player, score,
          aliensShoot, alien_move_dir, alien_animation, pc, bi, ai, frame, events,
          oob_reads, draw>>

\* ------------------------------------------------------- pure functions
\* alien_in_front(game, ai)
alien_in_front(al, a) ==
    \E i \in AlienIdx :
        /\ i # a
        /\ al[i].type # ALIEN_DEAD
        /\ Abs(al[i].x - al[a].x) < 5
        /\ ULt(al[i].y, al[a].y)

\* alien_at_border with the right edge one pixel further out (W - 11 for W - 12): the
\* fault the playfield property is checked against
alien_at_border_late(al) ==
    \E i \in AlienIdx :
        /\ al[i].type # ALIEN_DEAD
        /\ \/ (al[i].x - 3) < 0
           \/ (al[i].x + 1) > (buffer_width - 11)

\* alien_at_border with the right edge test off by one (>= for >): the fault the
\* border property is checked against
alien_at_border_early(al) ==
    \E i \in AlienIdx :
        /\ al[i].type # ALIEN_DEAD
        /\ \/ (al[i].x - 3) < 0
           \/ (al[i].x + 1) >= (buffer_width - 12)

\* alien_at_border(game)
alien_at_border(al) ==
    \E i \in AlienIdx :
        /\ al[i].type # ALIEN_DEAD
        /\ \/ (al[i].x - 3) < 0
           \/ (al[i].x + 1) > (buffer_width - 12)

\* all_aliens_dead ending on the first DEAD alien instead of the first live one:
\* the fault the respawn property is checked against
some_alien_dead(al) == \E i \in AlienIdx : al[i].type = ALIEN_DEAD

\* all_aliens_dead(game)
all_aliens_dead(al) == \A i \in AlienIdx : al[i].type = ALIEN_DEAD

\* spawn_new_wave with the types counted from the other end, yi / 2 + 1: the fault
\* the row property is checked against
spawn_new_wave_alien_upside_down(yi, xi) ==
    LET type == (yi \div 2) + 1
    IN  [x |-> 16 * xi + 20 + (alien_death_sprite_width - alien_sprite_width(type)),
         y |-> 17 * yi + 128,
         type |-> type]

\* spawn_new_wave(game, alien_sprites, death_counters, alien_death_sprite):
\* the aliens it writes
spawn_new_wave_alien(yi, xi) ==
    LET type == ((5 - yi) \div 2) + 1
    IN  [x |-> 16 * xi + 20 + (alien_death_sprite_width - alien_sprite_width(type)),
         y |-> 17 * yi + 128,
         type |-> type]

spawn_new_wave_aliens == [i \in AlienIdx |-> spawn_new_wave_alien(i \div 11, i % 11)]

\* spawn_new_wave without its last assignment, the counters of a cleared wave left
\* at 0: the fault the wave property is checked against
spawn_new_wave_no_counters == [i \in AlienIdx |-> 0]

\* ... and the death counters it writes
spawn_new_wave_counters == [i \in AlienIdx |-> 1]

\* sprite_overlap_check(sp_a, x_a, y_a, sp_b, x_b, y_b)
sprite_overlap_check(w_a, h_a, x_a, y_a, w_b, h_b, x_b, y_b) ==
    /\ ULt(x_a, x_b + w_b)
    /\ ULt(x_b, x_a + w_a)
    /\ ULt(y_a, y_b + h_b)
    /\ ULt(y_b, y_a + h_a)

\* the bullet sprite against alien a (whose sprite is the current animation frame)
BulletOverAlien(b, al) ==
    sprite_overlap_check(bullet_sprite_width, bullet_sprite_height, b.x, b.y,
                         alien_sprite_width(al.type), alien_sprite_height, al.x, al.y)

\* the bullet sprite against the player sprite
BulletOverPlayer(b, p) ==
    sprite_overlap_check(bullet_sprite_width, bullet_sprite_height, b.x, b.y,
                         player_sprite_width, player_sprite_height, p.x, p.y)

\* the range test of both bullet loops
BulletOutOfRange(y) == UGe(y, buffer_height) \/ ULt(y, bullet_sprite_height)

\* ------------------------------------------------------------ key events
\* key_callback with the sign of the Left RELEASE wrong: the fault the move_dir
\* property is checked against
key_callback_left_release(key, action, g) ==
    CASE key = "ESCAPE" ->
            IF action = "PRESS" THEN [g EXCEPT !.game_running = FALSE] ELSE g
      [] key = "RIGHT" ->
            IF action = "PRESS" THEN [g EXCEPT !.move_dir = g.move_dir + 1]
            ELSE IF action = "RELEASE" THEN [g EXCEPT !.move_dir = g.move_dir - 1]
            ELSE g
      [] key = "LEFT" ->
            IF action = "PRESS" THEN [g EXCEPT !.move_dir = g.move_dir - 1]
            ELSE IF action = "RELEASE" THEN [g EXCEPT !.move_dir = g.move_dir - 1]
            ELSE g
      [] key = "SPACE" ->
            IF action = "RELEASE" THEN [g EXCEPT !.fire_pressed = TRUE] ELSE g
      [] OTHER -> g

\* key_callback(window, key, scancode, action, mods) on the three globals
key_callback(key, action, g) ==
    CASE key = "ESCAPE" ->
            IF action = "PRESS" THEN [g EXCEPT !.game_running = FALSE] ELSE g
      [] key = "RIGHT" ->
            IF action = "PRESS" THEN [g EXCEPT !.move_dir = g.move_dir + 1]
            ELSE IF action = "RELEASE" THEN [g EXCEPT !.move_dir = g.move_dir - 1]
            ELSE g
      [] key = "LEFT" ->
            IF action = "PRESS" THEN [g EXCEPT !.move_dir = g.move_dir - 1]
            ELSE IF action = "RELEASE" THEN [g EXCEPT !.move_dir = g.move_dir + 1]
            ELSE g
      [] key = "SPACE" ->
            IF action = "RELEASE" THEN [g EXCEPT !.fire_pressed = TRUE] ELSE g
      [] OTHER -> g

Keys == {"ESCAPE", "RIGHT", "LEFT", "SPACE"}
KeyActions == {"PRESS", "RELEASE"}

\* glfwPollEvents delivers one key event to key_callback.  Left and Right events
\* follow the keyboard: a key that is up is pressed, a key that is down is released.
KeyEvent(key, action) ==
    /\ pc \in {"poll", "over_poll"}
    /\ events < MaxEventsPerPoll
    /\ (key = "RIGHT") => ((action = "PRESS") = ~right_held)
    /\ (key = "LEFT") => ((action = "PRESS") = ~left_held)
    /\ LET g == key_callback(key, action,
                    [game_running |-> game_running, move_dir |-> move_dir,
                     fire_pressed |-> fire_pressed])
       IN  /\ game_running' = g.game_running
           /\ move_dir' = g.move_dir
           /\ fire_pressed' = g.fire_pressed
    /\ right_held' = IF key = "RIGHT" THEN action = "PRESS" ELSE right_held
    /\ left_held' = IF key = "LEFT" THEN action = "PRESS" ELSE left_held
    /\ events' = events + 1
    /\ UNCHANGED <<window_should_close, aliens, death_counters, bullets, num_bullets,
                   player, score, aliensShoot, alien_move_dir, alien_animation, pc,
                   bi, ai, frame, oob_reads, draw>>

\* glfwPollEvents delivers the request to close the window
WindowClose ==
    /\ pc \in {"poll", "over_poll"}
    /\ ~window_should_close
    /\ window_should_close' = TRUE
    /\ UNCHANGED <<game_running, move_dir, fire_pressed, right_held, left_held, aliens,
                   death_counters, bullets, num_bullets, player, score, aliensShoot,
                   alien_move_dir, alien_animation, pc, bi, ai, frame, events,
                   oob_reads, draw>>

\* glfwPollEvents returns: the end of the loop body (frame pacing changes no state)
PollEventsReturn ==
    /\ pc \in {"poll", "over_poll"}
    /\ pc' = IF pc = "poll" THEN "loop" ELSE "over_loop"
    /\ events' = 0
    /\ UNCHANGED <<game_running, move_dir, fire_pressed, window_should_close,
                   right_held, left_held, aliens, death_counters, bullets,
                   num_bullets, player, score, aliensShoot, alien_move_dir,
                   alien_animation, bi, ai, frame, oob_reads, draw>>

\* ------------------------------------------------------------ main loop
\* while (!glfwWindowShouldClose(window) && game_running): the body is entered
MainLoopEnter ==
    /\ pc = "loop"
    /\ ~window_should_close /\ game_running
    /\ frame < MaxFrames
    /\ frame' = frame + 1
    /\ pc' = "border"
    /\ UNCHANGED <<game_running, move_dir, fire_pressed, window_should_close,
                   right_held, left_held, aliens, death_counters, bullets,
                   num_bullets, player, score, aliensShoot, alien_move_dir,
                   alien_animation, bi, ai, events, oob_reads, draw>>

\* ... or the loop ends, and game_running = true is executed
MainLoopExit ==
    /\ pc = "loop"
    /\ ~(~window_should_close /\ game_running)
    /\ game_running' = TRUE
    /\ pc' = "over_loop"
    /\ UNCHANGED <<move_dir, fire_pressed, window_should_close, right_held, left_held,
                   aliens, death_counters, bullets, num_bullets, player, score,
                   aliensShoot, alien_move_dir, alien_animation, bi, ai, frame,
                   events, oob_reads, draw>>

\* "check if aliens are at the border"
FormationStep ==
    /\ pc = "border"
    /\ IF alien_at_border(aliens)
       THEN /\ alien_move_dir' = alien_move_dir * (-1)
            /\ aliens' = [i \in AlienIdx |-> [aliens[i] EXCEPT !.y = aliens[i].y - 5]]
       ELSE UNCHANGED <<alien_move_dir, aliens>>
    /\ pc' = "draw"
    /\ UNCHANGED <<game_running, move_dir, fire_pressed, window_should_close,
                   right_held, left_held, death_counters, bullets, num_bullets,
                   player, score, aliensShoot, alien_animation, bi, ai, frame,
                   events, oob_reads, draw>>

\* "Add aliens to the buffer": a live alien is moved as it is drawn
DrawAliens ==
    /\ pc = "draw"
    /\ aliens' = [i \in AlienIdx |->
                    IF death_counters[i] # 0 /\ aliens[i].type # ALIEN_DEAD
                    THEN [aliens[i] EXCEPT !.x = aliens[i].x + alien_move_dir]
                    ELSE aliens[i]]
    /\ pc' = "anim"
    /\ UNCHANGED <<game_running, move_dir, fire_pressed, window_should_close,
                   right_held, left_held, death_counters, bullets, num_bullets,
                   player, score, aliensShoot, alien_move_dir, alien_animation, bi,
                   ai, frame, events, oob_reads, draw>>

\* "Update Alien Animations"
UpdateAnimations ==
    /\ pc = "anim"
    /\ alien_animation' = [i \in 0 .. 2 |->
                             IF alien_animation[i] + 1 = num_frames * frame_duration
                             THEN 0 ELSE alien_animation[i] + 1]
    /\ pc' = "bullets1"
    /\ UNCHANGED <<game_running, move_dir, fire_pressed, window_should_close,
                   right_held, left_held, aliens, death_counters, bullets,
                   num_bullets, player, score, aliensShoot, alien_move_dir, bi, ai,
                   frame, events, oob_reads, draw>>

\* ------------------------------------------------------------ bullet table
\* game.bullets[i] = v, for a slot inside the slots written so far or the next one
WriteSlot(bs, i, v) ==
    IF i < Len(bs) THEN [bs EXCEPT ![i + 1] = v] ELSE Append(bs, v)

\* slot i of game.bullets was written before
SlotWritten(bs, i) == 0 <= i /\ i < Len(bs)

\* What a read outside the slots written so far may yield: the read is undefined
\* (index num_bullets - 1 with num_bullets = 0 is the storage just before the array,
\* which in struct Game is the player: x, y, life), or memory that is zero.
GarbageBullets(p) ==
    { [x |-> p.x, y |-> p.y, dir |-> p.life], [x |-> 0, y |-> 0, dir |-> 0] }

\* the values a read of game.bullets[i] can yield
ReadSlot(bs, i, p, reads) ==
    IF SlotWritten(bs, i) THEN {bs[i + 1]}
    ELSE IF reads < MaxOobReads THEN GarbageBullets(p)
    ELSE {}

OobCount(bs, i) == IF SlotWritten(bs, i) THEN 0 ELSE 1

\* "Update Bullet Sprites": the whole first bullet loop, from index b
RECURSIVE UpdateBulletSprites(_, _, _)
UpdateBulletSprites(bs, n, b) ==
    IF ~ULt(b, n) THEN [bullets |-> bs, num_bullets |-> n]
    ELSE LET y2 == bs[b + 1].y + bs[b + 1].dir
             moved == [bs EXCEPT ![b + 1].y = y2]
         IN  IF BulletOutOfRange(y2)
             THEN UpdateBulletSprites([moved EXCEPT ![b + 1] = moved[n]], n - 1, b)
             ELSE UpdateBulletSprites(moved, n, b + 1)

UpdateBullets ==
    /\ pc = "bullets1"
    /\ num_bullets >= 0 /\ num_bullets <= Len(bullets)
    /\ LET r == UpdateBulletSprites(bullets, num_bullets, 0)
       IN  /\ bullets' = r.bullets
           /\ num_bullets' = r.num_bullets
    /\ pc' = "sim_aliens"
    /\ UNCHANGED <<game_running, move_dir, fire_pressed, window_should_close,
                   right_held, left_held, aliens, death_counters, player, score,
                   aliensShoot, alien_move_dir, alien_animation, bi, ai, frame,
                   events, oob_reads, draw>>

\* "Simulate aliens" taking 2 from a counter at a time (uint8_t): the fault the
\* count-down property is checked against
SimulateAliensByTwo ==
    /\ pc = "sim_aliens"
    /\ death_counters' = [i \in AlienIdx |->
                            IF aliens[i].type = ALIEN_DEAD /\ death_counters[i] # 0
                            THEN (death_counters[i] - 2) % 256 ELSE death_counters[i]]
    /\ pc' = "sim_bullets"
    /\ bi' = 0
    /\ UNCHANGED <<game_running, move_dir, fire_pressed, window_should_close,
                   right_held, left_held, aliens, bullets, num_bullets, player,
                   score, aliensShoot, alien_move_dir, alien_animation, ai, frame,
                   events, oob_reads, draw>>

\* "Simulate aliens" without the test of the type, every counter running down: the
\* fault the counter property is checked against
SimulateAliensAll ==
    /\ pc = "sim_aliens"
    /\ death_counters' = [i \in AlienIdx |->
                            IF death_counters[i] # 0
                            THEN death_counters[i] - 1 ELSE death_counters[i]]
    /\ pc' = "sim_bullets"
    /\ bi' = 0
    /\ UNCHANGED <<game_running, move_dir, fire_pressed, window_should_close,
                   right_held, left_held, aliens, bullets, num_bullets, player,
                   score, aliensShoot, alien_move_dir, alien_animation, ai, frame,
                   events, oob_reads, draw>>

\* "Simulate aliens"
SimulateAliens ==
    /\ pc = "sim_aliens"
    /\ death_counters' = [i \in AlienIdx |->
                            IF aliens[i].type = ALIEN_DEAD /\ death_counters[i] # 0
                            THEN death_counters[i] - 1 ELSE death_counters[i]]
    /\ pc' = "sim_bullets"
    /\ bi' = 0
    /\ UNCHANGED <<game_running, move_dir, fire_pressed, window_should_close,
                   right_held, left_held, aliens, bullets, num_bullets, player,
                   score, aliensShoot, alien_move_dir, alien_animation, ai, frame,
                   events, oob_reads, draw>>

\* "Simulate Bullets", head of the loop: the loop ends, or bullet bi is advanced and
\* then culled (swap with the last, same bi again) or handed to the alien scan
SimulateBullets ==
    /\ pc = "sim_bullets"
    /\ IF ~ULt(bi, num_bullets)
       THEN /\ pc' = "move"
            /\ bi' = 0
            /\ UNCHANGED <<bullets, num_bullets, oob_reads>>
       ELSE /\ bi <= Len(bullets) /\ bi < GAME_MAX_BULLETS
            /\ \E b \in ReadSlot(bullets, bi, player, oob_reads) :
                 LET moved == [b EXCEPT !.y = b.y + b.dir]
                     bs1 == WriteSlot(bullets, bi, moved)
                     r1 == oob_reads + OobCount(bullets, bi)
                 IN  IF BulletOutOfRange(moved.y)
                     THEN \E last \in ReadSlot(bs1, num_bullets - 1, player, r1) :
                            /\ bullets' = WriteSlot(bs1, bi, last)
                            /\ num_bullets' = num_bullets - 1
                            /\ oob_reads' = r1 + OobCount(bs1, num_bullets - 1)
                            /\ pc' = "sim_bullets"
                            /\ bi' = bi
                     ELSE /\ bullets' = bs1
                          /\ oob_reads' = r1
                          /\ pc' = "scan"
                          /\ UNCHANGED <<num_bullets, bi>>
    /\ ai' = 0
    /\ UNCHANGED <<game_running, move_dir, fire_pressed, window_should_close,
                   right_held, left_held, aliens, death_counters, player, score,
                   aliensShoot, alien_move_dir, alien_animation, frame, events, draw>>

\* the aliens from index ai on that bullet bi overlaps ("check each alien")
AliensHit == { a \in AlienIdx : /\ a >= ai
                                /\ aliens[a].type # ALIEN_DEAD
                                /\ BulletOverAlien(bullets[bi + 1], aliens[a]) }

FirstOf(S) == CHOOSE a \in S : \A o \in S : a <= o

\* the shift without the division by 2: the fault the hit property is checked against
DeathShiftWhole(type) == alien_death_sprite_width - alien_sprite_width(type)

\* (alien_death_sprite.width - alien_sprite.width) / 2
DeathShift(type) == (alien_death_sprite_width - alien_sprite_width(type)) \div 2

\* the points of a hit with the sign turned, 10 * (type - 4): the fault the score
\* property is checked against
HitScoreNegative(type) == 10 * (type - 4)

\* score += 10 * (4 - game.aliens[ai].type)
HitScore(type) == 10 * (4 - type)

\* the hit that also clears the death counter of the alien, so that a shot alien
\* is at once out of the pick loop: the fault the pick property is checked against
AlienHitClearsCounter ==
    /\ pc = "scan"
    /\ AliensHit # {}
    /\ LET a == FirstOf(AliensHit)
       IN  /\ score' = score + HitScore(aliens[a].type)
           /\ aliens' = [aliens EXCEPT
                           ![a].type = ALIEN_DEAD,
                           ![a].x = aliens[a].x - DeathShift(aliens[a].type)]
           /\ ai' = a + 1
           /\ death_counters' = [death_counters EXCEPT ![a] = 0]
    /\ \E last \in ReadSlot(bullets, num_bullets - 1, player, oob_reads) :
           bullets' = WriteSlot(bullets, bi, last)
    /\ oob_reads' = oob_reads + OobCount(bullets, num_bullets - 1)
    /\ num_bullets' = num_bullets - 1
    /\ UNCHANGED <<game_running, move_dir, fire_pressed, window_should_close,
                   right_held, left_held, player, aliensShoot,
                   alien_move_dir, alien_animation, pc, bi, frame, events, draw>>

\* "Alien was hit. Update game values." The continue resumes the alien loop at the
\* next alien, with whatever is in slot bi now.
AlienHit ==
    /\ pc = "scan"
    /\ AliensHit # {}
    /\ LET a == FirstOf(AliensHit)
       IN  /\ score' = score + HitScore(aliens[a].type)
           /\ aliens' = [aliens EXCEPT
                           ![a].type = ALIEN_DEAD,
                           ![a].x = aliens[a].x - DeathShift(aliens[a].type)]
           /\ ai' = a + 1
    /\ \E last \in ReadSlot(bullets, num_bullets - 1, player, oob_reads) :
           bullets' = WriteSlot(bullets, bi, last)
    /\ oob_reads' = oob_reads + OobCount(bullets, num_bullets - 1)
    /\ num_bullets' = num_bullets - 1
    /\ UNCHANGED <<game_running, move_dir, fire_pressed, window_should_close,
                   right_held, left_held, death_counters, player, aliensShoot,
                   alien_move_dir, alien_animation, pc, bi, frame, events, draw>>

\* the alien loop ends without (another) hit
AlienScanEnd ==
    /\ pc = "scan"
    /\ AliensHit = {}
    /\ pc' = "player_check"
    /\ ai' = 0
    /\ UNCHANGED <<game_running, move_dir, fire_pressed, window_should_close,
                   right_held, left_held, aliens, death_counters, bullets,
                   num_bullets, player, score, aliensShoot, alien_move_dir,
                   alien_animation, bi, frame, events, oob_reads, draw>>

\* the test of the life written as a signed one, which no size_t satisfies: the
\* fault the life property is checked against
PlayerLostBelowZero(p) == p.life < 0

\* if (game.player.life == 0)
PlayerLost(p) == p.life = 0

\* "Check if the player was hit", then ++bi
PlayerCheck ==
    /\ pc = "player_check"
    /\ IF BulletOverPlayer(bullets[bi + 1], player)
       THEN LET hit == [player EXCEPT !.life = player.life - 1]
            IN  /\ player' = hit
                /\ IF PlayerLost(hit)
                   THEN /\ game_running' = FALSE
                        /\ pc' = "move"
                        /\ bi' = 0
                        /\ UNCHANGED <<bullets, num_bullets, oob_reads>>
                   ELSE /\ \E last \in ReadSlot(bullets, num_bullets - 1, hit, oob_reads) :
                               bullets' = WriteSlot(bullets, bi, last)
                        /\ oob_reads' = oob_reads + OobCount(bullets, num_bullets - 1)
                        /\ num_bullets' = num_bullets - 1
                        /\ pc' = "sim_bullets"
                        /\ UNCHANGED <<game_running, bi>>
       ELSE /\ bi' = bi + 1
            /\ pc' = "sim_bullets"
            /\ UNCHANGED <<game_running, player, bullets, num_bullets, oob_reads>>
    /\ UNCHANGED <<move_dir, fire_pressed, window_should_close, right_held, left_held,
                   aliens, death_counters, score, aliensShoot, alien_move_dir,
                   alien_animation, ai, frame, events, draw>>

\* ------------------------------------------------------------ player
\* the movement without the clamp at the left edge: the fault the clamp property is
\* checked against
PlayerMovedNoLeftClamp(p, dir) ==
    LET player_move_dir == 2 * dir
    IN  IF player_move_dir # 0
        THEN IF UGe(p.x + player_sprite_width + player_move_dir, buffer_width)
             THEN [p EXCEPT !.x = buffer_width - player_sprite_width]
             ELSE [p EXCEPT !.x = p.x + player_move_dir]
        ELSE p

\* "Handle player movement" with player_move_dir = 2 * move_dir
PlayerMoved(p, dir) ==
    LET player_move_dir == 2 * dir
    IN  IF player_move_dir # 0
        THEN IF UGe(p.x + player_sprite_width + player_move_dir, buffer_width)
             THEN [p EXCEPT !.x = buffer_width - player_sprite_width]
             ELSE IF p.x + player_move_dir <= 0
             THEN [p EXCEPT !.x = 0]
             ELSE [p EXCEPT !.x = p.x + player_move_dir]
        ELSE p

PlayerMove ==
    /\ pc = "move"
    /\ player' = PlayerMoved(player, move_dir)
    /\ pc' = "shoot"
    /\ UNCHANGED <<game_running, move_dir, fire_pressed, window_should_close,
                   right_held, left_held, aliens, death_counters, bullets,
                   num_bullets, score, aliensShoot, alien_move_dir, alien_animation,
                   bi, ai, frame, events, oob_reads, draw>>

\* the bullet of "Player shoots"
PlayerBullet(p) ==
    [x |-> p.x + (player_sprite_width \div 2), y |-> p.y + player_sprite_height, dir |-> 2]

\* "Player shoots" without fire_pressed = false: the fault the one-shot property is
\* checked against
PlayerShootsKeepsFire ==
    /\ pc = "shoot"
    /\ IF fire_pressed /\ ULt(num_bullets, GAME_MAX_BULLETS)
       THEN /\ num_bullets <= Len(bullets)
            /\ bullets' = WriteSlot(bullets, num_bullets, PlayerBullet(player))
            /\ num_bullets' = num_bullets + 1
       ELSE UNCHANGED <<bullets, num_bullets>>
    /\ pc' = "aliens_shoot"
    /\ UNCHANGED <<game_running, move_dir, fire_pressed, window_should_close, right_held,
                   left_held, aliens, death_counters, player, score, aliensShoot,
                   alien_move_dir, alien_animation, bi, ai, frame, events, oob_reads, draw>>

\* "Player shoots"
PlayerShoots ==
    /\ pc = "shoot"
    /\ IF fire_pressed /\ ULt(num_bullets, GAME_MAX_BULLETS)
       THEN /\ num_bullets <= Len(bullets)
            /\ bullets' = WriteSlot(bullets, num_bullets, PlayerBullet(player))
            /\ num_bullets' = num_bullets + 1
       ELSE UNCHANGED <<bullets, num_bullets>>
    /\ fire_pressed' = FALSE
    /\ pc' = "aliens_shoot"
    /\ UNCHANGED <<game_running, move_dir, window_should_close, right_held, left_held,
                   aliens, death_counters, player, score, aliensShoot, alien_move_dir,
                   alien_animation, bi, ai, frame, events, oob_reads, draw>>

\* ------------------------------------------------------------ aliens shoot
\* the bullet of "shoot a bullet from that alien"
AlienBullet(al) ==
    [x |-> al.x + (alien_sprite_width(al.type) \div 2),
     y |-> al.y - alien_sprite_height,
     dir |-> -2]

\* the pick loop without its alien_in_front test: the fault the alien shot property is
\* checked against
AlienPicksAny == { a \in AlienIdx : death_counters[a] # 0 }

\* the indices on which the do-while over dist(rng) can end
AlienPicks == { a \in AlienIdx : ~(death_counters[a] = 0 \/ alien_in_front(aliens, a)) }

\* "Aliens shoot": the counter, the random pick, and either the continue of the main
\* loop (the pick is DEAD) or the shot
AliensShoot ==
    /\ pc = "aliens_shoot"
    /\ IF aliensShoot < 20
       THEN /\ aliensShoot' = aliensShoot + 1
            /\ pc' = "wave"
            /\ UNCHANGED <<bullets, num_bullets>>
       ELSE /\ aliensShoot' = 0
            /\ \E a \in AlienPicks :
                 IF aliens[a].type = ALIEN_DEAD
                 THEN /\ pc' = "loop"
                      /\ UNCHANGED <<bullets, num_bullets>>
                 ELSE /\ pc' = "wave"
                      /\ IF ULt(num_bullets, GAME_MAX_BULLETS)
                         THEN /\ num_bullets <= Len(bullets)
                              /\ bullets' = WriteSlot(bullets, num_bullets,
                                                      AlienBullet(aliens[a]))
                              /\ num_bullets' = num_bullets + 1
                         ELSE UNCHANGED <<bullets, num_bullets>>
    /\ UNCHANGED <<game_running, move_dir, fire_pressed, window_should_close,
                   right_held, left_held, aliens, death_counters, player, score,
                   alien_move_dir, alien_animation, bi, ai, frame, events, oob_reads, draw>>

\* ------------------------------------------------------------ wave
\* "clear all bullets": while (num_bullets > 0) { bullets[0] = bullets[num_bullets - 1]; ... }
RECURSIVE ClearBullets(_, _)
ClearBullets(bs, n) ==
    IF n = 0 THEN bs ELSE ClearBullets([bs EXCEPT ![1] = bs[n]], n - 1)

\* "check if all aliens are dead", then glfwPollEvents starts
WaveCheck ==
    /\ pc = "wave"
    /\ IF all_aliens_dead(aliens)
       THEN /\ num_bullets >= 0 /\ num_bullets <= Len(bullets)
            /\ score' = score + 10
            /\ bullets' = ClearBullets(bullets, num_bullets)
            /\ num_bullets' = 0
            /\ aliens' = spawn_new_wave_aliens
            /\ death_counters' = spawn_new_wave_counters
       ELSE UNCHANGED <<score, bullets, num_bullets, aliens, death_counters>>
    /\ pc' = "poll"
    /\ UNCHANGED <<game_running, move_dir, fire_pressed, window_should_close,
                   right_held, left_held, player, aliensShoot, alien_move_dir,
                   alien_animation, bi, ai, frame, events, oob_reads, draw>>

\* ------------------------------------------------------------ game-over loop
\* while (!glfwWindowShouldClose(window) && game_running): GAME OVER is drawn and
\* glfwPollEvents starts
GameOverLoopEnter ==
    /\ pc = "over_loop"
    /\ ~window_should_close /\ game_running
    /\ pc' = "over_poll"
    /\ UNCHANGED <<game_running, move_dir, fire_pressed, window_should_close,
                   right_held, left_held, aliens, death_counters, bullets,
                   num_bullets, player, score, aliensShoot, alien_move_dir,
                   alien_animation, bi, ai, frame, events, oob_reads, draw>>

\* ... or the loop ends and the program exits
GameOverLoopExit ==
    /\ pc = "over_loop"
    /\ ~(~window_should_close /\ game_running)
    /\ pc' = "exit"
    /\ UNCHANGED <<game_running, move_dir, fire_pressed, window_should_close,
                   right_held, left_held, aliens, death_counters, bullets,
                   num_bullets, player, score, aliensShoot, alien_move_dir,
                   alien_animation, bi, ai, frame, events, oob_reads, draw>>

\* ------------------------------------------------------------ initial states
\* main() up to the first test of the main loop
GameStart ==
    [game_running |-> TRUE, move_dir |-> 0, fire_pressed |-> FALSE,
     right_held |-> FALSE, left_held |-> FALSE,
     aliens |-> spawn_new_wave_aliens,
     death_counters |-> [i \in AlienIdx |-> 10],
     bullets |-> << >>, num_bullets |-> 0,
     player |-> [x |-> 112 - 5, y |-> 32, life |-> 3],
     score |-> 0, aliensShoot |-> 0, alien_move_dir |-> 1,
     alien_animation |-> [i \in 0 .. 2 |-> 0]]

\* The aliens of a wave that has moved s pixels to the right and stepped down k
\* times; `dead` maps each alien that was shot to the x it was left at.
Formation(s, k, dead) ==
    [i \in AlienIdx |->
        LET a == spawn_new_wave_aliens[i]
        IN  IF i \in DOMAIN dead
            THEN [x |-> dead[i], y |-> a.y - 5 * k, type |-> ALIEN_DEAD]
            ELSE [x |-> a.x + s, y |-> a.y - 5 * k, type |-> a.type]]

\* The death counters: c for a live alien, `dead` for the aliens that were shot.
Counters(c, dead) == [i \in AlienIdx |-> IF i \in DOMAIN dead THEN dead[i] ELSE c]

\* the loop test of frame 26 when no key is ever pressed and every shot is
\* fired by the first alien the pick loop can end on
Idle26 ==
    [game_running |-> TRUE, move_dir |-> 0, fire_pressed |-> FALSE,
     right_held |-> FALSE, left_held |-> FALSE,
     aliens |-> Formation(26, 0, << >>),
     death_counters |-> Counters(10, << >>),
     bullets |-> <<[x |-> 48, y |-> 100, dir |-> -2]>>,
     num_bullets |-> 1,
     player |-> [x |-> 107, y |-> 32, life |-> 3],
     score |-> 0, aliensShoot |-> 5, alien_move_dir |-> 1,
     alien_animation |-> [i \in 0 .. 2 |-> 6]]

\* the loop test of frame 1176 when no key is ever pressed and every shot is
\* fired by the first alien the pick loop can end on
Idle1176 ==
    [game_running |-> TRUE, move_dir |-> 0, fire_pressed |-> FALSE,
     right_held |-> FALSE, left_held |-> FALSE,
     aliens |-> Formation(-18, 25, << >>),
     death_counters |-> Counters(10, << >>),
     bullets |-> <<[x |-> 9, y |-> -5, dir |-> -2], [x |-> 42, y |-> 83, dir |-> -2]>>,
     num_bullets |-> 1,
     player |-> [x |-> 107, y |-> 32, life |-> 3],
     score |-> 0, aliensShoot |-> 0, alien_move_dir |-> -1,
     alien_animation |-> [i \in 0 .. 2 |-> 16]]

\* the loop test of frame 827 of a game in which the player has shot aliens 5, 16
\* and 27 and alien 38 fired in frame 818
Column5Shot827 ==
    [game_running |-> TRUE, move_dir |-> 0, fire_pressed |-> FALSE,
     right_held |-> FALSE, left_held |-> FALSE,
     aliens |-> Formation(-1, 18,
        5 :> 125 @@ 16 :> 127 @@ 27 :> 91),
     death_counters |-> Counters(10,
        5 :> 0 @@ 16 :> 0 @@ 27 :> 0),
     bullets |-> <<[x |-> 98, y |-> 49, dir |-> -2], [x |-> 189, y |-> 29, dir |-> -2]>>,
     num_bullets |-> 1,
     player |-> [x |-> 93, y |-> 32, life |-> 3],
     score |-> 40, aliensShoot |-> 8, alien_move_dir |-> 1,
     alien_animation |-> [i \in 0 .. 2 |-> 7]]

\* the loop test of frame 538 of a game in which the player has shot aliens 3, 14,
\* 25 and 36 and the bullet fired at alien 47 is one frame away from it
Column3Shot538 ==
    [game_running |-> TRUE, move_dir |-> 0, fire_pressed |-> FALSE,
     right_held |-> FALSE, left_held |-> FALSE,
     aliens |-> Formation(-14, 12,
        3 :> 96 @@ 14 :> 96 @@ 25 :> 51 @@ 36 :> 85),
     death_counters |-> Counters(10,
        3 :> 0 @@ 14 :> 0 @@ 25 :> 0 @@ 36 :> 0),
     bullets |-> <<[x |-> 66, y |-> 127, dir |-> 2], [x |-> 176, y |-> 13, dir |-> -2]>>,
     num_bullets |-> 2,
     player |-> [x |-> 61, y |-> 32, life |-> 3],
     score |-> 60, aliensShoot |-> 13, alien_move_dir |-> 1,
     alien_animation |-> [i \in 0 .. 2 |-> 18]]

\* the loop test of frame 3169 of a game in which the player has shot every
\* alien but alien 0, has twice been hit by its bullets and stands below it one
\* frame before its next shot
LastLife ==
    [game_running |-> TRUE, move_dir |-> 0, fire_pressed |-> FALSE,
     right_held |-> FALSE, left_held |-> FALSE,
     aliens |-> Formation(125, 17,
        1 :> 183 @@ 2 :> 86 @@ 3 :> 97 @@ 4 :> 109 @@ 5 :> 126 @@ 6 :> 136 @@ 7 :> 147 @@ 8 :> 158 @@
        9 :> 168 @@ 10 :> 179 @@ 11 :> 73 @@ 12 :> 79 @@ 13 :> 89 @@ 14 :> 99 @@ 15 :> 111 @@ 16 :> 123 @@
        17 :> 134 @@ 18 :> 144 @@ 19 :> 154 @@ 20 :> 165 @@ 21 :> 176 @@ 22 :> 177 @@ 23 :> 81 @@ 24 :> 91 @@
        25 :> 102 @@ 26 :> 113 @@ 27 :> 120 @@ 28 :> 131 @@ 29 :> 141 @@ 30 :> 152 @@ 31 :> 162 @@ 32 :> 173 @@
        33 :> 174 @@ 34 :> 83 @@ 35 :> 94 @@ 36 :> 105 @@ 37 :> 115 @@ 38 :> 117 @@ 39 :> 127 @@ 40 :> 138 @@
        41 :> 149 @@ 42 :> 159 @@ 43 :> 170 @@ 44 :> 79 @@ 45 :> 201 @@ 46 :> 99 @@ 47 :> 110 @@ 48 :> 121 @@
        49 :> 114 @@ 50 :> 125 @@ 51 :> 136 @@ 52 :> 146 @@ 53 :> 157 @@ 54 :> 168),
     death_counters |-> Counters(10,
        1 :> 0 @@ 2 :> 0 @@ 3 :> 0 @@ 4 :> 0 @@ 5 :> 0 @@ 6 :> 0 @@ 7 :> 0 @@ 8 :> 0 @@
        9 :> 0 @@ 10 :> 0 @@ 11 :> 0 @@ 12 :> 0 @@ 13 :> 0 @@ 14 :> 0 @@ 15 :> 0 @@ 16 :> 0 @@
        17 :> 0 @@ 18 :> 0 @@ 19 :> 0 @@ 20 :> 0 @@ 21 :> 0 @@ 22 :> 0 @@ 23 :> 0 @@ 24 :> 0 @@
        25 :> 0 @@ 26 :> 0 @@ 27 :> 0 @@ 28 :> 0 @@ 29 :> 0 @@ 30 :> 0 @@ 31 :> 0 @@ 32 :> 0 @@
        33 :> 0 @@ 34 :> 0 @@ 35 :> 0 @@ 36 :> 0 @@ 37 :> 0 @@ 38 :> 0 @@ 39 :> 0 @@ 40 :> 0 @@
        41 :> 0 @@ 42 :> 0 @@ 43 :> 0 @@ 44 :> 0 @@ 45 :> 0 @@ 46 :> 0 @@ 47 :> 0 @@ 48 :> 0 @@
        49 :> 0 @@ 50 :> 0 @@ 51 :> 0 @@ 52 :> 0 @@ 53 :> 0 @@ 54 :> 0),
     bullets |-> <<[x |-> 171, y |-> 31, dir |-> -2], [x |-> 187, y |-> 257, dir |-> 2], [x |-> 187, y |-> 257, dir |-> 2],
         [x |-> 150, y |-> 29, dir |-> -2], [x |-> 187, y |-> 247, dir |-> 2], [x |-> 150, y |-> 37, dir |-> -2],
         [x |-> 187, y |-> 247, dir |-> 2], [x |-> 187, y |-> 251, dir |-> 2], [x |-> 187, y |-> 247, dir |-> 2],
         [x |-> 187, y |-> 227, dir |-> 2], [x |-> 189, y |-> 247, dir |-> 2], [x |-> 187, y |-> 219, dir |-> 2],
         [x |-> 193, y |-> 257, dir |-> 2], [x |-> 193, y |-> 251, dir |-> 2], [x |-> 193, y |-> 251, dir |-> 2],
         [x |-> 193, y |-> 243, dir |-> 2], [x |-> 187, y |-> 203, dir |-> 2], [x |-> 150, y |-> 85, dir |-> -2],
         [x |-> 199, y |-> 257, dir |-> 2], [x |-> 195, y |-> 239, dir |-> 2], [x |-> 189, y |-> 207, dir |-> 2],
         [x |-> 193, y |-> 223, dir |-> 2], [x |-> 171, y |-> 19, dir |-> -2], [x |-> 187, y |-> 179, dir |-> 2],
         [x |-> 191, y |-> 203, dir |-> 2], [x |-> 203, y |-> 247, dir |-> 2], [x |-> 203, y |-> 243, dir |-> 2],
         [x |-> 187, y |-> 175, dir |-> 2], [x |-> 199, y |-> 223, dir |-> 2], [x |-> 201, y |-> 223, dir |-> 2],
         [x |-> 187, y |-> 155, dir |-> 2], [x |-> 197, y |-> 199, dir |-> 2], [x |-> 199, y |-> 199, dir |-> 2],
         [x |-> 195, y |-> 179, dir |-> 2], [x |-> 193, y |-> 167, dir |-> 2], [x |-> 189, y |-> 151, dir |-> 2],
         [x |-> 205, y |-> 219, dir |-> 2], [x |-> 203, y |-> 219, dir |-> 2], [x |-> 171, y |-> 85, dir |-> -2],
         [x |-> 205, y |-> 201, dir |-> 2], [x |-> 191, y |-> 131, dir |-> 2], [x |-> 189, y |-> 123, dir |-> 2],
         [x |-> 210, y |-> 89, dir |-> -2], [x |-> 187, y |-> 95, dir |-> 2], [x |-> 187, y |-> 87, dir |-> 2],
         [x |-> 203, y |-> 211, dir |-> 2], [x |-> 205, y |-> 171, dir |-> 2], [x |-> 193, y |-> 247, dir |-> 2],
         [x |-> 195, y |-> 239, dir |-> 2], [x |-> 197, y |-> 231, dir |-> 2], [x |-> 199, y |-> 219, dir |-> 2],
         [x |-> 201, y |-> 211, dir |-> 2], [x |-> 203, y |-> 203, dir |-> 2], [x |-> 187, y |-> 39, dir |-> 2],
         [x |-> 187, y |-> 39, dir |-> 2], [x |-> 210, y |-> 153, dir |-> -2], [x |-> 162, y |-> 90, dir |-> -2]>>,
     num_bullets |-> 0,
     player |-> [x |-> 146, y |-> 32, life |-> 1],
     score |-> 980, aliensShoot |-> 19, alien_move_dir |-> -1,
     alien_animation |-> [i \in 0 .. 2 |-> 9]]

\* the loop test of frame 3378 of a game in which the player has shot every
\* alien but alien 0 and stands below it on the bottom row, three frames
\* before its next shot
LastAlienShot ==
    [game_running |-> TRUE, move_dir |-> 0, fire_pressed |-> FALSE,
     right_held |-> FALSE, left_held |-> FALSE,
     aliens |-> Formation(46, 18,
        1 :> 183 @@ 2 :> 86 @@ 3 :> 97 @@ 4 :> 109 @@ 5 :> 126 @@ 6 :> 136 @@ 7 :> 147 @@ 8 :> 158 @@
        9 :> 168 @@ 10 :> 179 @@ 11 :> 73 @@ 12 :> 79 @@ 13 :> 89 @@ 14 :> 99 @@ 15 :> 111 @@ 16 :> 123 @@
        17 :> 134 @@ 18 :> 144 @@ 19 :> 154 @@ 20 :> 165 @@ 21 :> 176 @@ 22 :> 177 @@ 23 :> 81 @@ 24 :> 91 @@
        25 :> 102 @@ 26 :> 113 @@ 27 :> 120 @@ 28 :> 131 @@ 29 :> 141 @@ 30 :> 152 @@ 31 :> 162 @@ 32 :> 173 @@
        33 :> 174 @@ 34 :> 83 @@ 35 :> 94 @@ 36 :> 105 @@ 37 :> 115 @@ 38 :> 117 @@ 39 :> 127 @@ 40 :> 138 @@
        41 :> 149 @@ 42 :> 159 @@ 43 :> 170 @@ 44 :> 79 @@ 45 :> 201 @@ 46 :> 99 @@ 47 :> 110 @@ 48 :> 121 @@
        49 :> 114 @@ 50 :> 125 @@ 51 :> 136 @@ 52 :> 146 @@ 53 :> 157 @@ 54 :> 168),
     death_counters |-> Counters(10,
        1 :> 0 @@ 2 :> 0 @@ 3 :> 0 @@ 4 :> 0 @@ 5 :> 0 @@ 6 :> 0 @@ 7 :> 0 @@ 8 :> 0 @@
        9 :> 0 @@ 10 :> 0 @@ 11 :> 0 @@ 12 :> 0 @@ 13 :> 0 @@ 14 :> 0 @@ 15 :> 0 @@ 16 :> 0 @@
        17 :> 0 @@ 18 :> 0 @@ 19 :> 0 @@ 20 :> 0 @@ 21 :> 0 @@ 22 :> 0 @@ 23 :> 0 @@ 24 :> 0 @@
        25 :> 0 @@ 26 :> 0 @@ 27 :> 0 @@ 28 :> 0 @@ 29 :> 0 @@ 30 :> 0 @@ 31 :> 0 @@ 32 :> 0 @@
        33 :> 0 @@ 34 :> 0 @@ 35 :> 0 @@ 36 :> 0 @@ 37 :> 0 @@ 38 :> 0 @@ 39 :> 0 @@ 40 :> 0 @@
        41 :> 0 @@ 42 :> 0 @@ 43 :> 0 @@ 44 :> 0 @@ 45 :> 0 @@ 46 :> 0 @@ 47 :> 0 @@ 48 :> 0 @@
        49 :> 0 @@ 50 :> 0 @@ 51 :> 0 @@ 52 :> 0 @@ 53 :> 0 @@ 54 :> 0),
     bullets |-> <<[x |-> 55, y |-> 2, dir |-> -2], [x |-> 187, y |-> 257, dir |-> 2], [x |-> 187, y |-> 257, dir |-> 2],
         [x |-> 150, y |-> 29, dir |-> -2], [x |-> 187, y |-> 247, dir |-> 2], [x |-> 150, y |-> 37, dir |-> -2],
         [x |-> 187, y |-> 247, dir |-> 2], [x |-> 187, y |-> 251, dir |-> 2], [x |-> 187, y |-> 247, dir |-> 2],
         [x |-> 187, y |-> 227, dir |-> 2], [x |-> 189, y |-> 247, dir |-> 2], [x |-> 187, y |-> 219, dir |-> 2],
         [x |-> 193, y |-> 257, dir |-> 2], [x |-> 193, y |-> 251, dir |-> 2], [x |-> 193, y |-> 251, dir |-> 2],
         [x |-> 193, y |-> 243, dir |-> 2], [x |-> 187, y |-> 203, dir |-> 2], [x |-> 150, y |-> 85, dir |-> -2],
         [x |-> 199, y |-> 257, dir |-> 2], [x |-> 195, y |-> 239, dir |-> 2], [x |-> 189, y |-> 207, dir |-> 2],
         [x |-> 193, y |-> 223, dir |-> 2], [x |-> 171, y |-> 19, dir |-> -2], [x |-> 187, y |-> 179, dir |-> 2],
         [x |-> 191, y |-> 203, dir |-> 2], [x |-> 203, y |-> 247, dir |-> 2], [x |-> 203, y |-> 243, dir |-> 2],
         [x |-> 187, y |-> 175, dir |-> 2], [x |-> 199, y |-> 223, dir |-> 2], [x |-> 201, y |-> 223, dir |-> 2],
         [x |-> 187, y |-> 155, dir |-> 2], [x |-> 197, y |-> 199, dir |-> 2], [x |-> 199, y |-> 199, dir |-> 2],
         [x |-> 195, y |-> 179, dir |-> 2], [x |-> 193, y |-> 167, dir |-> 2], [x |-> 189, y |-> 151, dir |-> 2],
         [x |-> 205, y |-> 219, dir |-> 2], [x |-> 203, y |-> 219, dir |-> 2], [x |-> 171, y |-> 85, dir |-> -2],
         [x |-> 205, y |-> 201, dir |-> 2], [x |-> 191, y |-> 131, dir |-> 2], [x |-> 189, y |-> 123, dir |-> 2],
         [x |-> 210, y |-> 89, dir |-> -2], [x |-> 187, y |-> 95, dir |-> 2], [x |-> 187, y |-> 87, dir |-> 2],
         [x |-> 203, y |-> 211, dir |-> 2], [x |-> 205, y |-> 171, dir |-> 2], [x |-> 193, y |-> 247, dir |-> 2],
         [x |-> 195, y |-> 239, dir |-> 2], [x |-> 197, y |-> 231, dir |-> 2], [x |-> 199, y |-> 219, dir |-> 2],
         [x |-> 201, y |-> 211, dir |-> 2], [x |-> 203, y |-> 203, dir |-> 2], [x |-> 187, y |-> 39, dir |-> 2],
         [x |-> 187, y |-> 39, dir |-> 2], [x |-> 210, y |-> 153, dir |-> -2], [x |-> 162, y |-> 90, dir |-> -2]>>,
     num_bullets |-> 0,
     player |-> [x |-> 68, y |-> 32, life |-> 3],
     score |-> 980, aliensShoot |-> 18, alien_move_dir |-> 1,
     alien_animation |-> [i \in 0 .. 2 |-> 18]]

\* the loop test of frame 3407 of the same game, an alien bullet in flight
LastAlien ==
    [game_running |-> TRUE, move_dir |-> 0, fire_pressed |-> FALSE,
     right_held |-> FALSE, left_held |-> FALSE,
     aliens |-> Formation(75, 18,
        1 :> 183 @@ 2 :> 86 @@ 3 :> 97 @@ 4 :> 109 @@ 5 :> 126 @@ 6 :> 136 @@ 7 :> 147 @@ 8 :> 158 @@
        9 :> 168 @@ 10 :> 179 @@ 11 :> 73 @@ 12 :> 79 @@ 13 :> 89 @@ 14 :> 99 @@ 15 :> 111 @@ 16 :> 123 @@
        17 :> 134 @@ 18 :> 144 @@ 19 :> 154 @@ 20 :> 165 @@ 21 :> 176 @@ 22 :> 177 @@ 23 :> 81 @@ 24 :> 91 @@
        25 :> 102 @@ 26 :> 113 @@ 27 :> 120 @@ 28 :> 131 @@ 29 :> 141 @@ 30 :> 152 @@ 31 :> 162 @@ 32 :> 173 @@
        33 :> 174 @@ 34 :> 83 @@ 35 :> 94 @@ 36 :> 105 @@ 37 :> 115 @@ 38 :> 117 @@ 39 :> 127 @@ 40 :> 138 @@
        41 :> 149 @@ 42 :> 159 @@ 43 :> 170 @@ 44 :> 79 @@ 45 :> 201 @@ 46 :> 99 @@ 47 :> 110 @@ 48 :> 121 @@
        49 :> 114 @@ 50 :> 125 @@ 51 :> 136 @@ 52 :> 146 @@ 53 :> 157 @@ 54 :> 168),
     death_counters |-> Counters(10,
        1 :> 0 @@ 2 :> 0 @@ 3 :> 0 @@ 4 :> 0 @@ 5 :> 0 @@ 6 :> 0 @@ 7 :> 0 @@ 8 :> 0 @@
        9 :> 0 @@ 10 :> 0 @@ 11 :> 0 @@ 12 :> 0 @@ 13 :> 0 @@ 14 :> 0 @@ 15 :> 0 @@ 16 :> 0 @@
        17 :> 0 @@ 18 :> 0 @@ 19 :> 0 @@ 20 :> 0 @@ 21 :> 0 @@ 22 :> 0 @@ 23 :> 0 @@ 24 :> 0 @@
        25 :> 0 @@ 26 :> 0 @@ 27 :> 0 @@ 28 :> 0 @@ 29 :> 0 @@ 30 :> 0 @@ 31 :> 0 @@ 32 :> 0 @@
        33 :> 0 @@ 34 :> 0 @@ 35 :> 0 @@ 36 :> 0 @@ 37 :> 0 @@ 38 :> 0 @@ 39 :> 0 @@ 40 :> 0 @@
        41 :> 0 @@ 42 :> 0 @@ 43 :> 0 @@ 44 :> 0 @@ 45 :> 0 @@ 46 :> 0 @@ 47 :> 0 @@ 48 :> 0 @@
        49 :> 0 @@ 50 :> 0 @@ 51 :> 0 @@ 52 :> 0 @@ 53 :> 0 @@ 54 :> 0),
     bullets |-> <<[x |-> 97, y |-> 10, dir |-> -2], [x |-> 187, y |-> 257, dir |-> 2], [x |-> 187, y |-> 257, dir |-> 2],
         [x |-> 150, y |-> 29, dir |-> -2], [x |-> 187, y |-> 247, dir |-> 2], [x |-> 150, y |-> 37, dir |-> -2],
         [x |-> 187, y |-> 247, dir |-> 2], [x |-> 187, y |-> 251, dir |-> 2], [x |-> 187, y |-> 247, dir |-> 2],
         [x |-> 187, y |-> 227, dir |-> 2], [x |-> 189, y |-> 247, dir |-> 2], [x |-> 187, y |-> 219, dir |-> 2],
         [x |-> 193, y |-> 257, dir |-> 2], [x |-> 193, y |-> 251, dir |-> 2], [x |-> 193, y |-> 251, dir |-> 2],
         [x |-> 193, y |-> 243, dir |-> 2], [x |-> 187, y |-> 203, dir |-> 2], [x |-> 150, y |-> 85, dir |-> -2],
         [x |-> 199, y |-> 257, dir |-> 2], [x |-> 195, y |-> 239, dir |-> 2], [x |-> 189, y |-> 207, dir |-> 2],
         [x |-> 193, y |-> 223, dir |-> 2], [x |-> 171, y |-> 19, dir |-> -2], [x |-> 187, y |-> 179, dir |-> 2],
         [x |-> 191, y |-> 203, dir |-> 2], [x |-> 203, y |-> 247, dir |-> 2], [x |-> 203, y |-> 243, dir |-> 2],
         [x |-> 187, y |-> 175, dir |-> 2], [x |-> 199, y |-> 223, dir |-> 2], [x |-> 201, y |-> 223, dir |-> 2],
         [x |-> 187, y |-> 155, dir |-> 2], [x |-> 197, y |-> 199, dir |-> 2], [x |-> 199, y |-> 199, dir |-> 2],
         [x |-> 195, y |-> 179, dir |-> 2], [x |-> 193, y |-> 167, dir |-> 2], [x |-> 189, y |-> 151, dir |-> 2],
         [x |-> 205, y |-> 219, dir |-> 2], [x |-> 203, y |-> 219, dir |-> 2], [x |-> 171, y |-> 85, dir |-> -2],
         [x |-> 205, y |-> 201, dir |-> 2], [x |-> 191, y |-> 131, dir |-> 2], [x |-> 189, y |-> 123, dir |-> 2],
         [x |-> 210, y |-> 89, dir |-> -2], [x |-> 187, y |-> 95, dir |-> 2], [x |-> 187, y |-> 87, dir |-> 2],
         [x |-> 203, y |-> 211, dir |-> 2], [x |-> 205, y |-> 171, dir |-> 2], [x |-> 193, y |-> 247, dir |-> 2],
         [x |-> 195, y |-> 239, dir |-> 2], [x |-> 197, y |-> 231, dir |-> 2], [x |-> 199, y |-> 219, dir |-> 2],
         [x |-> 201, y |-> 211, dir |-> 2], [x |-> 203, y |-> 203, dir |-> 2], [x |-> 187, y |-> 39, dir |-> 2],
         [x |-> 187, y |-> 39, dir |-> 2], [x |-> 210, y |-> 153, dir |-> -2], [x |-> 162, y |-> 90, dir |-> -2]>>,
     num_bullets |-> 1,
     player |-> [x |-> 98, y |-> 32, life |-> 3],
     score |-> 980, aliensShoot |-> 5, alien_move_dir |-> 1,
     alien_animation |-> [i \in 0 .. 2 |-> 7]]

\* the loop test of frame 1613 of a game in which the player has shot all aliens but
\* 0, 1 and 45 (45 stands behind 1) and then held fire until the table was empty; the
\* next alien shot is three frames away
ThreeAliensLeft ==
    [game_running |-> TRUE, move_dir |-> 0, fire_pressed |-> FALSE,
     right_held |-> FALSE, left_held |-> FALSE,
     aliens |-> Formation(1, 10,
        2 :> 86 @@ 3 :> 97 @@ 4 :> 109 @@ 5 :> 126 @@ 6 :> 136 @@ 7 :> 147 @@ 8 :> 158 @@ 9 :> 168 @@
        10 :> 179 @@ 11 :> 73 @@ 12 :> 79 @@ 13 :> 89 @@ 14 :> 99 @@ 15 :> 111 @@ 16 :> 123 @@ 17 :> 134 @@
        18 :> 144 @@ 19 :> 154 @@ 20 :> 165 @@ 21 :> 176 @@ 22 :> 177 @@ 23 :> 81 @@ 24 :> 91 @@ 25 :> 102 @@
        26 :> 113 @@ 27 :> 120 @@ 28 :> 131 @@ 29 :> 141 @@ 30 :> 152 @@ 31 :> 162 @@ 32 :> 173 @@ 33 :> 174 @@
        34 :> 83 @@ 35 :> 94 @@ 36 :> 105 @@ 37 :> 115 @@ 38 :> 117 @@ 39 :> 127 @@ 40 :> 138 @@ 41 :> 149 @@
        42 :> 159 @@ 43 :> 170 @@ 44 :> 79 @@ 46 :> 99 @@ 47 :> 110 @@ 48 :> 121 @@ 49 :> 114 @@ 50 :> 125 @@
        51 :> 136 @@ 52 :> 146 @@ 53 :> 157 @@ 54 :> 168),
     death_counters |-> Counters(10,
        2 :> 0 @@ 3 :> 0 @@ 4 :> 0 @@ 5 :> 0 @@ 6 :> 0 @@ 7 :> 0 @@ 8 :> 0 @@ 9 :> 0 @@
        10 :> 0 @@ 11 :> 0 @@ 12 :> 0 @@ 13 :> 0 @@ 14 :> 0 @@ 15 :> 0 @@ 16 :> 0 @@ 17 :> 0 @@
        18 :> 0 @@ 19 :> 0 @@ 20 :> 0 @@ 21 :> 0 @@ 22 :> 0 @@ 23 :> 0 @@ 24 :> 0 @@ 25 :> 0 @@
        26 :> 0 @@ 27 :> 0 @@ 28 :> 0 @@ 29 :> 0 @@ 30 :> 0 @@ 31 :> 0 @@ 32 :> 0 @@ 33 :> 0 @@
        34 :> 0 @@ 35 :> 0 @@ 36 :> 0 @@ 37 :> 0 @@ 38 :> 0 @@ 39 :> 0 @@ 40 :> 0 @@ 41 :> 0 @@
        42 :> 0 @@ 43 :> 0 @@ 44 :> 0 @@ 46 :> 0 @@ 47 :> 0 @@ 48 :> 0 @@ 49 :> 0 @@ 50 :> 0 @@
        51 :> 0 @@ 52 :> 0 @@ 53 :> 0 @@ 54 :> 0),
     bullets |-> <<[x |-> 11, y |-> 2, dir |-> -2], [x |-> 208, y |-> 83, dir |-> -2], [x |-> 125, y |-> 105, dir |-> -2],
         [x |-> 154, y |-> 257, dir |-> 2], [x |-> 154, y |-> 251, dir |-> 2], [x |-> 154, y |-> 247, dir |-> 2],
         [x |-> 152, y |-> 235, dir |-> 2], [x |-> 152, y |-> 235, dir |-> 2], [x |-> 154, y |-> 235, dir |-> 2],
         [x |-> 152, y |-> 227, dir |-> 2], [x |-> 156, y |-> 237, dir |-> 2], [x |-> 160, y |-> 247, dir |-> 2],
         [x |-> 162, y |-> 257, dir |-> 2], [x |-> 160, y |-> 241, dir |-> 2], [x |-> 162, y |-> 73, dir |-> -2],
         [x |-> 162, y |-> 243, dir |-> 2], [x |-> 164, y |-> 247, dir |-> 2], [x |-> 158, y |-> 219, dir |-> 2],
         [x |-> 164, y |-> 237, dir |-> 2], [x |-> 164, y |-> 239, dir |-> 2], [x |-> 152, y |-> 183, dir |-> 2],
         [x |-> 168, y |-> 247, dir |-> 2], [x |-> 158, y |-> 199, dir |-> 2], [x |-> 162, y |-> 105, dir |-> -2],
         [x |-> 154, y |-> 171, dir |-> 2], [x |-> 172, y |-> 243, dir |-> 2], [x |-> 176, y |-> 251, dir |-> 2],
         [x |-> 176, y |-> 247, dir |-> 2], [x |-> 174, y |-> 239, dir |-> 2], [x |-> 174, y |-> 231, dir |-> 2],
         [x |-> 172, y |-> 223, dir |-> 2], [x |-> 172, y |-> 215, dir |-> 2], [x |-> 170, y |-> 199, dir |-> 2],
         [x |-> 180, y |-> 239, dir |-> 2], [x |-> 168, y |-> 179, dir |-> 2], [x |-> 166, y |-> 171, dir |-> 2],
         [x |-> 166, y |-> 163, dir |-> 2], [x |-> 164, y |-> 157, dir |-> 2], [x |-> 162, y |-> 147, dir |-> 2],
         [x |-> 162, y |-> 139, dir |-> 2], [x |-> 158, y |-> 119, dir |-> 2], [x |-> 156, y |-> 107, dir |-> 2],
         [x |-> 183, y |-> 105, dir |-> -2], [x |-> 154, y |-> 87, dir |-> 2], [x |-> 152, y |-> 77, dir |-> 2],
         [x |-> 166, y |-> 257, dir |-> 2], [x |-> 166, y |-> 257, dir |-> 2], [x |-> 180, y |-> 183, dir |-> 2],
         [x |-> 162, y |-> 257, dir |-> 2], [x |-> 162, y |-> 251, dir |-> 2], [x |-> 164, y |-> 243, dir |-> 2],
         [x |-> 166, y |-> 235, dir |-> 2], [x |-> 166, y |-> 227, dir |-> 2], [x |-> 152, y |-> 39, dir |-> 2],
         [x |-> 154, y |-> 39, dir |-> 2], [x |-> 156, y |-> 39, dir |-> 2], [x |-> 156, y |-> 39, dir |-> 2]>>,
     num_bullets |-> 0,
     player |-> [x |-> 147, y |-> 32, life |-> 3],
     score |-> 940, aliensShoot |-> 17, alien_move_dir |-> 1,
     alien_animation |-> [i \in 0 .. 2 |-> 13]]

InitialStates ==
    {GameStart, Idle26, Idle1176, Column5Shot827, Column3Shot538, ThreeAliensLeft,
     LastLife, LastAlienShot, LastAlien}

\* the program is in the state s of a game, at the top of the main loop
StartsIn(s) ==
        /\ game_running = s.game_running
        /\ move_dir = s.move_dir
        /\ fire_pressed = s.fire_pressed
        /\ window_should_close = FALSE
        /\ right_held = s.right_held
        /\ left_held = s.left_held
        /\ aliens = s.aliens
        /\ death_counters = s.death_counters
        /\ bullets = s.bullets
        /\ num_bullets = s.num_bullets
        /\ player = s.player
        /\ score = s.score
        /\ aliensShoot = s.aliensShoot
        /\ alien_move_dir = s.alien_move_dir
        /\ alien_animation = s.alien_animation
        /\ pc = "loop"
        /\ bi = 0
        /\ ai = 0
        /\ frame = 0
        /\ events = 0
        /\ oob_reads = 0

\* no sprite drawn yet
NoDraw == [drawn |-> FALSE, sprite |-> <<>>, x |-> 0, y |-> 0, cells |-> {}]

Init ==
    /\ \E s \in InitialStates : StartsIn(s)
    /\ draw = NoDraw

Next ==
    \/ \E key \in Keys, action \in KeyActions : KeyEvent(key, action)
    \/ WindowClose
    \/ PollEventsReturn
    \/ MainLoopEnter
    \/ MainLoopExit
    \/ FormationStep
    \/ DrawAliens
    \/ UpdateAnimations
    \/ UpdateBullets
    \/ SimulateAliens
    \/ SimulateBullets
    \/ AlienHit
    \/ AlienScanEnd
    \/ PlayerCheck
    \/ PlayerMove
    \/ PlayerShoots
    \/ AliensShoot
    \/ WaveCheck
    \/ GameOverLoopEnter
    \/ GameOverLoopExit

Spec == Init /\ [][Next]_vars

\* ------------------------------------------------- buffer_draw_sprite on its own
\* alien_sprites[0]: 8 x 8, the rows of data from yi = 0
alien_sprite_0 ==
    [width |-> 8, height |-> 8,
     data |-> <<0,0,0,1,1,0,0,0,
                0,0,1,1,1,1,0,0,
                0,1,1,1,1,1,1,0,
                1,1,0,1,1,0,1,1,
                1,1,1,1,1,1,1,1,
                0,1,0,1,1,0,1,0,
                1,0,0,0,0,0,0,1,
                0,1,0,0,0,0,1,0>>]

\* player_sprite: 11 x 7
player_sprite ==
    [width |-> 11, height |-> 7,
     data |-> <<0,0,0,0,0,1,0,0,0,0,0,
                0,0,0,0,1,1,1,0,0,0,0,
                0,0,0,0,1,1,1,0,0,0,0,
                0,1,1,1,1,1,1,1,1,1,0,
                1,1,1,1,1,1,1,1,1,1,1,
                1,1,1,1,1,1,1,1,1,1,1,
                1,1,1,1,1,1,1,1,1,1,1>>]

\* bullet_sprite: 1 x 3
bullet_sprite == [width |-> 1, height |-> 3, data |-> <<1, 1, 1>>]

Sprites == {alien_sprite_0, player_sprite, bullet_sprite}

\* sprite.data[yi * sprite.width + xi]
SpriteBit(sprite, xi, yi) == sprite.data[yi * sprite.width + xi + 1]

\* the (xi, yi) that the two loops visit
SpriteCells(sprite) == (0 .. sprite.width - 1) \X (0 .. sprite.height - 1)

\* buffer_draw_sprite without the test of the column, so that a sprite over the right
\* edge runs on into the next row: the fault the drawing property is checked against
buffer_draw_sprite_any_column(sprite, x, y) ==
    {(sprite.height - 1 + y - c[2]) * buffer_width + (x + c[1]) :
        c \in {d \in SpriteCells(sprite) :
                  /\ SpriteBit(sprite, d[1], d[2]) # 0
                  /\ ULt(sprite.height - 1 + y - d[2], buffer_height)}}

\* buffer_draw_sprite(buffer, sprite, x, y, color): the indices of buffer->data it
\* assigns. x, y and the sums are size_t, compared unsigned.
buffer_draw_sprite(sprite, x, y) ==
    {(sprite.height - 1 + y - c[2]) * buffer_width + (x + c[1]) :
        c \in {d \in SpriteCells(sprite) :
                  /\ SpriteBit(sprite, d[1], d[2]) # 0
                  /\ ULt(sprite.height - 1 + y - d[2], buffer_height)
                  /\ ULt(x + d[1], buffer_width)}}

\* the positions tried: around 0 (below it the size_t is a wrapped one) and around
\* the far edge
DrawPositions(limit) ==
    (0 - MaxDrawMargin .. MaxDrawMargin) \cup (limit - MaxDrawMargin .. limit + MaxDrawMargin)

DrawInit ==
    /\ StartsIn(GameStart)
    /\ draw = NoDraw

\* one call of buffer_draw_sprite on a clear buffer
DrawSprite ==
    /\ ~draw.drawn
    /\ \E sprite \in Sprites, x \in DrawPositions(buffer_width),
          y \in DrawPositions(buffer_height) :
           draw' = [drawn |-> TRUE, sprite |-> sprite, x |-> x, y |-> y,
                    cells |-> buffer_draw_sprite(sprite, x, y)]
    /\ UNCHANGED <<game_running, move_dir, fire_pressed, window_should_close,
                   right_held, left_held, aliens, death_counters, bullets,
                   num_bullets, player, score, aliensShoot, alien_move_dir,
                   alien_animation, pc, bi, ai, frame, events, oob_reads>>

DrawNext == DrawSprite

DrawSpec == DrawInit /\ [][DrawNext]_vars

\* ------------------------------------------------- the movement step on its own
\* the values of player.x: 107 at the start, the odd ones by steps of 2, the even
\* ones after a stop at the left edge
PlayerXs == 0 .. buffer_width - player_sprite_width

\* the game at "Handle player movement", the player anywhere on its line and the
\* Left and Right keys in any combination
MoveInit ==
    \E x \in PlayerXs, l \in BOOLEAN, r \in BOOLEAN :
        /\ game_running = TRUE
        /\ move_dir = (IF r THEN 1 ELSE 0) - (IF l THEN 1 ELSE 0)
        /\ fire_pressed = FALSE
        /\ window_should_close = FALSE
        /\ right_held = r
        /\ left_held = l
        /\ aliens = GameStart.aliens
        /\ death_counters = GameStart.death_counters
        /\ bullets = << >>
        /\ num_bullets = 0
        /\ player = [GameStart.player EXCEPT !.x = x]
        /\ score = 0
        /\ aliensShoot = 0
        /\ alien_move_dir = 1
        /\ alien_animation = GameStart.alien_animation
        /\ pc = "move"
        /\ bi = 0
        /\ ai = 0
        /\ frame = 1
        /\ events = 0
        /\ oob_reads = 0
        /\ draw = NoDraw

MoveNext == PlayerMove

MoveSpec == MoveInit /\ [][MoveNext]_vars

\* ================================================================ properties
\* how often bullet v is among the first n slots of the table
CountInTable(bs, n, v) == Cardinality({k \in 1 .. n : bs[k] = v})

\* "some live alien has x - 3 < 0 or x + 1 > W - 12"
SomeLiveAlienAtEdge ==
    \E i \in AlienIdx :
        /\ aliens[i].type # ALIEN_DEAD
        /\ (aliens[i].x - 3 < 0 \/ aliens[i].x + 1 > buffer_width - 12)

AllDead == \A i \in AlienIdx : aliens[i].type = ALIEN_DEAD

\* C1: in every reachable state 0 <= num_bullets <= 128: the count never wraps below
\* 0 and never exceeds the capacity of the table.
BulletCountInRange == num_bullets >= 0 /\ num_bullets <= GAME_MAX_BULLETS

\* C2: an alien that is DEAD stays DEAD in every step but the wave respawn; the step
\* that makes a DEAD alien live is the wave check, taken with all 55 aliens DEAD, and
\* it makes all 55 live.
DeadUntilRespawn ==
    [][\A i \in AlienIdx :
          (aliens[i].type = ALIEN_DEAD /\ aliens'[i].type # ALIEN_DEAD)
              => /\ pc = "wave"
                 /\ \A j \in AlienIdx : aliens[j].type = ALIEN_DEAD
                 /\ \A j \in AlienIdx : aliens'[j].type # ALIEN_DEAD]_vars

\* a wave was respawned: every alien is live with the counter spawn_new_wave gives it
RespawnedWave ==
    \A j \in AlienIdx : aliens[j].type # ALIEN_DEAD /\ death_counters[j] = 1

\* C3: when the alien scan of the collision pass finds bullet bi of the table over a
\* live alien of type t, that step adds 10 * (4 - t) to the score, makes the alien
\* DEAD, moves its x left by (13 - width of its live sprite) / 2, and removes that one
\* bullet: num_bullets goes down by 1 and every other bullet is still in the table.
AlienHitEffects ==
    [][(pc = "scan" /\ 0 <= bi /\ bi < num_bullets) =>
          \A a \in AlienIdx :
              (/\ a >= ai
               /\ aliens[a].type # ALIEN_DEAD
               /\ BulletOverAlien(bullets[bi + 1], aliens[a]))
                  => LET t == aliens[a].type
                     IN  /\ score' = score + 10 * (4 - t)
                         /\ aliens'[a].type = ALIEN_DEAD
                         /\ aliens'[a].x =
                              aliens[a].x
                              - ((alien_death_sprite_width - alien_sprite_width(t)) \div 2)
                         /\ num_bullets' = num_bullets - 1
                         /\ \A k \in 1 .. num_bullets :
                              CountInTable(bullets', num_bullets', bullets[k])
                                = CountInTable(bullets, num_bullets, bullets[k])
                                  - (IF bullets[k] = bullets[bi + 1] THEN 1 ELSE 0)]_vars

\* the alien scan has just passed an alien of the top row (type A) that it shot
TopRowAlienShot ==
    /\ pc = "scan"
    /\ ai > 0
    /\ aliens[ai - 1].type = ALIEN_DEAD
    /\ death_counters[ai - 1] = 10
    /\ spawn_new_wave_aliens[ai - 1].type = ALIEN_TYPE_A

\* C4: when the wave check at the end of the frame finds all 55 aliens DEAD, that
\* step adds exactly 10 to the score, sets num_bullets to 0 and puts every alien back
\* at the position and type it had at the start of the game, with a death counter
\* that is not 0; no alien is DEAD afterwards, and a wave check that finds a live
\* alien changes neither the score nor the aliens.
WaveRespawn ==
    [][(pc = "wave") =>
          IF AllDead
          THEN /\ score' = score + 10
               /\ num_bullets' = 0
               /\ \A i \in AlienIdx :
                    /\ aliens'[i] = GameStart.aliens[i]
                    /\ aliens'[i].type # ALIEN_DEAD
                    /\ death_counters'[i] # 0
          ELSE score' = score /\ aliens' = aliens]_vars

\* the wave check has given the bonus for the first wave and cleared the table
WaveRestored ==
    /\ pc = "poll"
    /\ score = 1000
    /\ num_bullets = 0
    /\ aliens = GameStart.aliens

\* C5: the life of the player is 3 at most, never grows and never goes below 0; a
\* bullet found over the player in the collision pass takes exactly 1 from it and
\* nothing else changes it; inside a frame game_running goes false exactly in the
\* step in which the life reaches 0; and with the life at 0 no new frame starts: the
\* loop test that follows leaves the main loop for the game-over loop.
PlayerLife ==
    /\ player.life \in 0 .. 3
    /\ [][/\ player'.life >= 0 /\ player'.life <= player.life
          /\ (pc = "player_check" /\ BulletOverPlayer(bullets[bi + 1], player))
                => player'.life = player.life - 1
          /\ (player'.life # player.life)
                => (pc = "player_check" /\ BulletOverPlayer(bullets[bi + 1], player))
          /\ (pc \notin {"poll", "over_poll"})
                => ((game_running /\ ~game_running')
                       <=> (player.life # 0 /\ player'.life = 0))
          /\ (player.life = 0) => pc' # "border"
          /\ (player.life = 0 /\ pc = "loop") => (pc' = "over_loop" /\ game_running')
         ]_vars

\* the game-over loop runs after the third hit
GameOverByDeath == pc = "over_poll" /\ player.life = 0 /\ game_running

\* C6 (as amended): alien_move_dir is negated in the formation step of a frame if and
\* only if some live alien is at an edge then, and in no other step; in that step
\* every alien's y goes down by 5 and no x changes; apart from that an alien's y
\* changes only when the wave check respawns the wave, to the row it started in.
FormationStepOrRespawn ==
    [][/\ (pc = "border") =>
             IF SomeLiveAlienAtEdge
             THEN /\ alien_move_dir' = -alien_move_dir
                  /\ \A i \in AlienIdx :
                       aliens'[i].y = aliens[i].y - 5 /\ aliens'[i].x = aliens[i].x
             ELSE /\ alien_move_dir' = alien_move_dir
                  /\ \A i \in AlienIdx : aliens'[i].y = aliens[i].y
       /\ (pc # "border") => alien_move_dir' = alien_move_dir
       /\ (pc # "border" /\ ~(pc = "wave" /\ AllDead))
             => \A i \in AlienIdx : aliens'[i].y = aliens[i].y
       /\ (pc = "wave" /\ AllDead)
             => \A i \in AlienIdx : aliens'[i].y = 17 * (i \div 11) + 128]_vars

\* C6 (as stated): ... and in every step outside the formation step no alien's y
\* changes.
FormationStepOnly ==
    [][/\ (pc = "border") =>
             IF SomeLiveAlienAtEdge
             THEN /\ alien_move_dir' = -alien_move_dir
                  /\ \A i \in AlienIdx :
                       aliens'[i].y = aliens[i].y - 5 /\ aliens'[i].x = aliens[i].x
             ELSE /\ alien_move_dir' = alien_move_dir
                  /\ \A i \in AlienIdx : aliens'[i].y = aliens[i].y
       /\ (pc # "border") => alien_move_dir' = alien_move_dir
       /\ (pc # "border") => \A i \in AlienIdx : aliens'[i].y = aliens[i].y]_vars

\* the formation has just taken its first step down, from the right edge
FirstStepDown ==
    /\ pc = "draw"
    /\ alien_move_dir = -1
    /\ \A i \in AlienIdx : aliens[i].y = GameStart.aliens[i].y - 5

\* C7: every alien's y is a coordinate of the playfield, 0 <= y < H, in every
\* reachable state: no step down takes it below 0.
AlienYInPlayfield ==
    \A i \in AlienIdx : aliens[i].y >= 0 /\ aliens[i].y < buffer_height

\* C8: the GAME OVER loop is entered only when the life of the player has reached 0;
\* a main loop ended by Escape with life left does not enter it.
GameOverLoopOnlyAfterDeath == (pc = "over_poll") => (player.life = 0)

\* C9: the player-shoot step adds one bullet with dir = +2 at the player's muzzle if
\* fire_pressed is set and the table has room, and nothing otherwise, whatever the
\* number of RELEASE events before the frame; it leaves fire_pressed false, which
\* only a key event sets again; and any other step that adds a bullet adds one
\* alien bullet.
OneShotPerFrame ==
    [][/\ (pc = "shoot") =>
             /\ ~fire_pressed'
             /\ IF fire_pressed /\ 0 <= num_bullets /\ num_bullets < GAME_MAX_BULLETS
                THEN /\ num_bullets' = num_bullets + 1
                     /\ bullets'[num_bullets'] =
                          [x |-> player.x + 5, y |-> player.y + 7, dir |-> 2]
                     /\ \A k \in 1 .. num_bullets : bullets'[k] = bullets[k]
                ELSE num_bullets' = num_bullets /\ bullets' = bullets
       /\ (pc \notin {"poll", "over_poll"}) => (fire_pressed' => fire_pressed)
       /\ (pc # "shoot" /\ num_bullets' > num_bullets)
             => /\ pc = "aliens_shoot"
                /\ num_bullets' = num_bullets + 1
                /\ bullets'[num_bullets'].dir = -2]_vars

\* the player-shoot step has just put a bullet into the table
PlayerBulletSpawned ==
    /\ pc = "aliens_shoot"
    /\ ~fire_pressed
    /\ num_bullets > 0
    /\ bullets[num_bullets] = [x |-> player.x + 5, y |-> 39, dir |-> 2]

\* C10: with key events that follow the keyboard, move_dir is [Right held] - [Left
\* held] in every state, so one of -1, 0 and 1; and the movement step of a frame
\* that runs with both keys held finds move_dir = 0 and leaves player.x as it is.
MoveDirFollowsKeys ==
    /\ [](/\ move_dir = (IF right_held THEN 1 ELSE 0) - (IF left_held THEN 1 ELSE 0)
          /\ move_dir \in {-1, 0, 1})
    /\ [][(pc = "move" /\ right_held /\ left_held)
             => (move_dir = 0 /\ player'.x = player.x)]_vars

\* the movement step of a frame has run with both keys held
BothKeysHeldFrame == pc = "shoot" /\ right_held /\ left_held

\* C11: in every reachable state a live alien has a type in {1, 2, 3} and a death
\* counter >= 1; a step changes a counter only by taking 1 from the counter of a DEAD
\* alien, or by the wave respawn, which leaves all 55 counters non-zero.
LiveAlienCounters ==
    /\ [](\A i \in AlienIdx :
             aliens[i].type # ALIEN_DEAD
                => /\ aliens[i].type \in {ALIEN_TYPE_A, ALIEN_TYPE_B, ALIEN_TYPE_C}
                   /\ death_counters[i] >= 1)
    /\ [][\A i \in AlienIdx :
             death_counters'[i] # death_counters[i]
                => \/ /\ aliens[i].type = ALIEN_DEAD
                      /\ death_counters'[i] = death_counters[i] - 1
                      /\ death_counters'[i] >= 0
                   \/ /\ pc = "wave" /\ AllDead
                      /\ \A j \in AlienIdx : death_counters'[j] # 0]_vars

\* the counter of an alien shot a frame ago has started to run down next to live aliens
DeathCounterRunning ==
    \E i, j \in AlienIdx :
        /\ aliens[i].type = ALIEN_DEAD /\ death_counters[i] = 9
        /\ aliens[j].type # ALIEN_DEAD /\ death_counters[j] = 10

\* the aliens are stored row by row, 11 to a row, each row above the one stored before
\* it (a larger y), so that row 4 is the top row of the formation
RowsStoredBottomUp == \A i \in 0 .. 43 : aliens[i + 11].y > aliens[i].y

\* every live alien has the type that `types` lists for its row, top row first
RowTypesAre(types) ==
    /\ RowsStoredBottomUp
    /\ \A i \in AlienIdx :
          aliens[i].type # ALIEN_DEAD => aliens[i].type = types[5 - (i \div 11)]

\* C12 (as amended): read from the top row of the playfield (largest y) to the bottom
\* row (smallest y), the five rows that spawn_new_wave writes have types 1,2,2,3,3,
\* at the start of the game and after every respawn.
RowTypesTopToBottom == RowTypesAre(<<1, 2, 2, 3, 3>>)

\* C12 (as stated): ... the five rows have types 1,1,2,2,3.
RowTypesAsStated == RowTypesAre(<<1, 1, 2, 2, 3>>)

\* spawn_new_wave has just written a wave: one row of type 1 on top of two of type 2
\* and two of type 3
WaveRowsSpawned ==
    /\ pc = "poll"
    /\ \A j \in AlienIdx : death_counters[j] = 1
    /\ \A c \in 0 .. 10 :
         /\ aliens[44 + c].type = ALIEN_TYPE_A /\ aliens[44 + c].y = 196
         /\ aliens[33 + c].type = ALIEN_TYPE_B /\ aliens[22 + c].type = ALIEN_TYPE_B
         /\ aliens[11 + c].type = ALIEN_TYPE_C
         /\ aliens[c].type = ALIEN_TYPE_C /\ aliens[c].y = 128

\* C13: the wave that spawn_new_wave writes has the alien of (row, col) at
\* x = 16 * col + 20 + (13 - width of the first sprite of its type) / 2 and
\* y = 17 * row + 128.
SpawnCentred ==
    [][(pc = "wave" /\ AllDead) =>
          \A row \in 0 .. 4 : \A col \in 0 .. 10 :
             LET a == aliens'[row * 11 + col]
             IN  /\ a.x = 16 * col + 20
                          + ((alien_death_sprite_width - alien_sprite_width(a.type)) \div 2)
                 /\ a.y = 17 * row + 128]_vars

\* C14: no step lowers the score, and a step changes it only by adding 10 * (4 - type)
\* for the alien of that type it kills, or by adding 10 when it respawns a cleared wave.
ScoreNeverDecreases ==
    [][/\ score' >= score
       /\ score' # score =>
            \/ /\ pc = "scan"
               /\ \E a \in AlienIdx :
                    /\ aliens[a].type # ALIEN_DEAD
                    /\ aliens'[a].type = ALIEN_DEAD
                    /\ score' = score + 10 * (4 - aliens[a].type)
            \/ /\ pc = "wave" /\ AllDead
               /\ score' = score + 10]_vars

\* the last alien (type 3) was shot at score 980 and the wave bonus followed
KillThenWaveBonus == score = 1000 /\ frame >= 3 /\ ~AllDead

\* C15: for every sprite and every position (x, y), wrapped ones included,
\* buffer_draw_sprite writes only indices in [0, W*H); each written cell is the target
\* of a set mask bit at a column x + xi < W and a row h - 1 + y - yi < H; and every set
\* mask bit whose target is in bounds is written.
DrawStaysInBuffer ==
    draw.drawn =>
        LET h == draw.sprite.height
            w == draw.sprite.width
            Col(xi) == draw.x + xi
            Row(yi) == h - 1 + draw.y - yi
            InBounds(xi, yi) ==
                /\ Col(xi) >= 0 /\ Col(xi) < buffer_width
                /\ Row(yi) >= 0 /\ Row(yi) < buffer_height
            Set(xi, yi) == draw.sprite.data[yi * w + xi + 1] = 1
        IN  /\ \A c \in draw.cells : c >= 0 /\ c < buffer_width * buffer_height
            /\ \A c \in draw.cells :
                 \E xi \in 0 .. w - 1, yi \in 0 .. h - 1 :
                    /\ Set(xi, yi) /\ InBounds(xi, yi)
                    /\ c \div buffer_width = Row(yi)
                    /\ c % buffer_width = Col(xi)
            /\ \A xi \in 0 .. w - 1, yi \in 0 .. h - 1 :
                 (Set(xi, yi) /\ InBounds(xi, yi))
                     => Row(yi) * buffer_width + Col(xi) \in draw.cells

\* the 8 x 8 sprite drawn at (W - 3, H - 3): only the 3 left columns of the last 3
\* rows of its data land in the buffer, 3 set bits
SpriteClippedAtCorner ==
    /\ draw.drawn
    /\ draw.sprite = alien_sprite_0
    /\ draw.x = buffer_width - 3 /\ draw.y = buffer_height - 3
    /\ Cardinality(draw.cells) = 3

\* C16: in the "Simulate Bullets" pass a step that culls the bullet of slot bi and
\* moves the last bullet of the table into that slot is followed by the pass taking
\* up slot bi again from its start, where the bullet is advanced and range-checked.
SwappedBulletProcessed ==
    [][(/\ pc \in {"sim_bullets", "scan", "player_check"}
        /\ num_bullets' = num_bullets - 1
        /\ ULt(bi, num_bullets'))
          => (pc' = "sim_bullets" /\ bi' = bi)]_vars

\* C17: the all-dead check with the wave respawn runs in every frame, also in one in
\* which an alien shot was abandoned because the picked alien is DEAD: a frame never
\* ends, and the next never begins, with the whole formation DEAD.
RespawnInSameFrame == pc \in {"poll", "loop"} => ~AllDead

\* C18: a step of "Aliens shoot" adds at most one bullet, and only when
\* 0 <= num_bullets < 128; the bullet it adds has dir = -2 and lies at
\* (alien.x + sprite.w / 2, alien.y - sprite.h) of an alien that is live and has no
\* other live alien with |dx| < 5 and a strictly smaller y.
AlienShotRule ==
    [][pc = "aliens_shoot" =>
          \/ /\ num_bullets' = num_bullets
             /\ bullets' = bullets
          \/ /\ num_bullets >= 0 /\ num_bullets < GAME_MAX_BULLETS
             /\ num_bullets' = num_bullets + 1
             /\ \A k \in 1 .. num_bullets : bullets'[k] = bullets[k]
             /\ \E a \in AlienIdx :
                  /\ aliens[a].type \in {ALIEN_TYPE_A, ALIEN_TYPE_B, ALIEN_TYPE_C}
                  /\ ~\E o \in AlienIdx \ {a} :
                        /\ aliens[o].type # ALIEN_DEAD
                        /\ aliens[o].x - aliens[a].x < 5
                        /\ aliens[a].x - aliens[o].x < 5
                        /\ ULt(aliens[o].y, aliens[a].y)
                  /\ bullets'[num_bullets'] =
                        [x |-> aliens[a].x + (alien_sprite_width(aliens[a].type) \div 2),
                         y |-> aliens[a].y - alien_sprite_height,
                         dir |-> -2]]_vars

\* an alien of the bottom row has just fired while alien 45 stands behind alien 1
AlienFiredFromFront ==
    /\ pc = "wave" /\ aliensShoot = 0
    /\ aliens[1].type # ALIEN_DEAD /\ aliens[45].type # ALIEN_DEAD
    /\ num_bullets >= 1
    /\ bullets[num_bullets].dir = -2
    /\ bullets[num_bullets].y = aliens[1].y - alien_sprite_height

\* C19: the "Aliens shoot" step of every frame increments aliensShoot, and in the
\* frame in which the incremented counter reaches 20 it is reset to 0 (and a shot is
\* attempted), so that the counter stays in 0 .. 20 and the attempts are 20 frames
\* apart.
AliensShootEvery20Frames ==
    [][pc = "aliens_shoot" =>
          /\ aliensShoot \in 0 .. 20
          /\ aliensShoot' = (IF aliensShoot + 1 >= 20 THEN 0 ELSE aliensShoot + 1)]_vars

\* C20: after the movement step 0 <= player.x <= W - 11 = 213; the step sets player.x
\* to W - 11 when player.x + 11 + 2 * move_dir >= W, else to 0 when
\* player.x + 2 * move_dir <= 0, else to player.x + 2 * move_dir, for move_dir in
\* {-1, 0, 1}.
PlayerXClamped ==
    /\ [](pc = "shoot" => (player.x >= 0 /\ player.x <= 213))
    /\ [][pc = "move" =>
            /\ move_dir \in {-1, 0, 1}
            /\ player'.x =
                 (IF player.x + 11 + 2 * move_dir >= buffer_width
                  THEN buffer_width - 11
                  ELSE IF player.x + 2 * move_dir <= 0 THEN 0
                  ELSE player.x + 2 * move_dir)
            /\ player'.y = player.y /\ player'.life = player.life]_vars

\* the step has stopped the player at the left edge
PlayerStoppedAtLeftEdge ==
    pc = "shoot" /\ move_dir = -1 /\ left_held /\ ~right_held /\ player.x = 0

\* C21: no death counter exceeds 10; the "Simulate aliens" step of a frame takes
\* exactly 1 from the counter of every DEAD alien whose counter is not 0 and leaves
\* the counter of every live alien alone; the step that kills an alien leaves its
\* counter alone (the count-down starts in the next frame); and no other step but
\* the wave respawn changes a counter, so the counter of a DEAD alien never rises and
\* is 0 at most 10 frames after the kill.
DeathCountDown ==
    /\ [](\A i \in AlienIdx : death_counters[i] >= 0 /\ death_counters[i] <= 10)
    /\ [][\A i \in AlienIdx :
            IF pc = "sim_aliens"
            THEN death_counters'[i] =
                    (IF aliens[i].type = ALIEN_DEAD /\ death_counters[i] > 0
                     THEN death_counters[i] - 1 ELSE death_counters[i])
            ELSE \/ death_counters'[i] = death_counters[i]
                 \/ pc = "wave" /\ AllDead /\ aliens'[i].type # ALIEN_DEAD]_vars

\* an alien was shot and its counter has run down for two frames since
DeathCounterTwoFramesOn ==
    /\ pc = "sim_bullets"
    /\ \E i \in AlienIdx : aliens[i].type = ALIEN_DEAD /\ death_counters[i] = 8

\* C22: whenever an alien shot is attempted (the "Aliens shoot" step with
\* aliensShoot at 20) some index has a non-zero death counter and no live alien in
\* front of it, so the pick loop has an index to end on; also in the frame in which
\* the last live alien was shot.
PickLoopCanEnd ==
    (pc = "aliens_shoot" /\ aliensShoot >= 20) =>
        \E a \in AlienIdx :
            /\ death_counters[a] # 0
            /\ ~\E o \in AlienIdx \ {a} :
                  /\ aliens[o].type # ALIEN_DEAD
                  /\ aliens[o].x - aliens[a].x < 5
                  /\ aliens[a].x - aliens[o].x < 5
                  /\ ULt(aliens[o].y, aliens[a].y)

\* a shot is attempted in the frame in which the last live alien was shot
ShotAttemptedWithAllDead == pc = "aliens_shoot" /\ aliensShoot = 20 /\ AllDead

\* C23: in a collision pass a kill (score change) or a lost life is produced only by
\* a bullet that is still in the table, 0 <= bi < num_bullets: once the bullet of
\* slot bi was culled, that slot has no further effect and is not culled again.
OneEffectPerBullet ==
    [][(/\ pc \in {"scan", "player_check"}
        /\ (score' # score \/ player'.life # player.life \/ num_bullets' # num_bullets))
          => (bi >= 0 /\ bi < num_bullets)]_vars

\* C24: only a player bullet kills an alien: the step of the alien scan that makes an
\* alien DEAD, or adds to the score, is taken with a bullet of dir = 2 in slot bi,
\* never with one of dir = -2.
AliensKilledByPlayerBullets ==
    [][(/\ pc = "scan"
        /\ \/ score' # score
           \/ \E i \in AlienIdx : aliens[i].type # ALIEN_DEAD /\ aliens'[i].type = ALIEN_DEAD)
          => (bullets[bi + 1].dir = 2 /\ bullets[bi + 1].dir # -2)]_vars

\* C25: player.life changes only in the player check of the collision pass, and only
\* with a bullet of dir = -2 in slot bi: a bullet of dir = 2 never overlaps the
\* player there.
LifeTakenByAlienBullets ==
    [][player'.life # player.life
          => (pc = "player_check" /\ bullets[bi + 1].dir = -2)]_vars

\* C26: every live alien lies inside the playfield, 2 <= x <= 212 and
\* x + the width of its sprite <= W, in every state, so at the end of every frame.
LiveAliensInsidePlayfield ==
    \A i \in AlienIdx :
        aliens[i].type # ALIEN_DEAD =>
            /\ 2 <= aliens[i].x /\ aliens[i].x <= 212
            /\ aliens[i].x + alien_sprite_width(aliens[i].type) <= buffer_width

\* the formation, moving left, has just put a live alien on the left edge
AlienOnLeftEdge ==
    /\ pc = "anim" /\ alien_move_dir = -1
    /\ \E i \in AlienIdx : aliens[i].type # ALIEN_DEAD /\ aliens[i].x = 2

====
